---- MODULE Spec2Model ----
(***************************************************************************)
(* book2anki: the rate-limited, cached, concurrent acquisition pipeline.   *)
(*                                                                         *)
(*   core/utils.py     AsyncRateLimiter                                    *)
(*   scrape/oald.py    Word (cache, variation pages, phrasal verbs)        *)
(*   generate/anki.py  MediaDownloader, AnkiGenerator                      *)
(*                                                                         *)
(* Tasks are asyncio coroutines: an action is the code a task runs between *)
(* two points where it really suspends (a full gate, a sleep, a network    *)
(* or file operation), so the code between two awaits that do not suspend  *)
(* is one step.                                                            *)
(*                                                                         *)
(* Time is discrete.  One limiter period (1.0 s in the code) is PERIOD     *)
(* ticks.  The clock counts up to MaxTime; from there on a tick moves      *)
(* every stored time one tick into the past instead (values that reach 0   *)
(* are older than any period or sleep and stay 0), so time never stops.    *)
(*                                                                         *)
(* Text is a sequence of code points, a file is a sequence of bytes or of  *)
(* encoded fields.  An optional value is a sequence of length 0 or 1.      *)
(***************************************************************************)
EXTENDS Integers, Sequences, FiniteSets, TLC

\* ------------------------------------------------------------------ bounds
PERIOD == 1          \* ticks in one limiter period (period=1.0)
MaxCalls == 2        \* largest max_calls the limiter is constructed with
NumCallers == 3      \* concurrent callers of AsyncRateLimiter.wait()
NumWords == 2        \* length of the word list given to generate_deck
MaxConcurrent == 2   \* largest max_concurrent AnkiGenerator is built with

\* Limits the code fixes at values too large to saturate in a small model;
\* the model keeps the code's structure and scales the numbers down.
MAX_ENTRIES == 2     \* Word.MAX_ENTRIES (5 in the code)
WordMaxCalls == 2    \* Word.RATE_LIMITER max_calls (100 in the code)
MediaMaxCalls == 2   \* MediaDownloader.rate_limiter max_calls (20 in the code)
PvPermits == 2       \* Word.PV_SEMAPHORE (10 in the code)

\* ------------------------------------------------------- program constants
MaxAttempts == 3     \* for attempt in range(3)

MaxTime == PERIOD                   \* the clock's horizon
Callers == 1..NumCallers
ConfigCalls == 0..MaxCalls          \* max_calls values handed to __init__
\* max_concurrent values handed to __init__
ConfigConcurrent == (0 - 1)..MaxConcurrent
Tasks == 1..NumWords                \* one _process_word task per list element
Variations == 1..MAX_ENTRIES

VARIABLES
  clock,          \* time.monotonic(), in ticks
  \* --- a limiter and the callers of its wait()
  limBuilt,       \* an AsyncRateLimiter has been constructed
  limMaxCalls,    \* its max_calls
  limTimestamps,  \* its timestamps deque
  cpc,            \* caller -> "idle" | "sleeping" | "admitted" | "raised"
  cwake,          \* caller -> time its asyncio.sleep ends
  ccalled,        \* caller -> time it called wait()
  cadmit,         \* caller -> time wait() returned to it
  cstamp,         \* caller -> timestamp wait() appended for it
  cslept,         \* caller -> it has been suspended in wait()
  \* --- the run: configuration and environment
  words,          \* the list given to generate_deck
  maxConcurrent,  \* AnkiGenerator's max_concurrent
  warm,           \* the tasks whose word an earlier run left in the cache
  warmMedia,      \* the files an earlier run left in the media cache
  localeEnc,      \* the platform's default text encoding, once looked up
  phase,          \* generate_deck: "words" | "entries" | "done", or how
                  \* the run ended otherwise
  \* --- word resolution (scrape/oald.py, AnkiGenerator._process_word)
  wpc,            \* task -> position of _process_word / Word.initialize
  vpc,            \* task -> variation -> position of _fetch_variation
  vwake,          \* task -> variation -> end of its sleep in the limiter
  vres,           \* task -> variation -> what _fetch_variation returned
  ppc,            \* task -> variation -> link -> position of _fetch_pv_data
  pres,           \* task -> variation -> link -> its result
  entries,        \* task -> Word.entries
  results,        \* task -> what _process_word returned (optional)
  cache,          \* cache path -> file content (optional)
  wordTs,         \* Word.RATE_LIMITER.timestamps
  wordGate,       \* holders of AnkiGenerator.word_semaphore
  pvGate,         \* holders of Word.PV_SEMAPHORE
  validWords,     \* AnkiGenerator.valid_words
  \* --- notes and media (generate/anki.py)
  etasks,         \* the entries handed to _process_entry, in order
  epc,            \* entry task -> position of _process_entry
  attempt,        \* entry task -> attempt of download_audio
  ewake,          \* entry task -> end of its sleep
  eret,           \* entry task -> what download_audio returned (optional)
  urlToFilename,  \* MediaDownloader.url_to_filename, as a set of pairs
  disk,           \* media cache: file name -> optional content
  mediaTs,        \* MediaDownloader.rate_limiter.timestamps
  mediaGate,      \* holders of MediaDownloader.semaphore
  mediaFiles,     \* AnkiGenerator.media_files
  \* --- observations of the network
  reqTimes,       \* kind of request -> times of the requests of the last period
  netReq,         \* task -> network requests issued for its word
  vgets,          \* task -> variation -> session.get calls made for it
  gets,           \* entry task -> session.get calls download_audio made
  raised          \* task -> the exception that reached _process_word

limVars == <<limBuilt, limMaxCalls, limTimestamps, cpc, cwake, ccalled,
             cadmit, cstamp, cslept>>
cfgVars == <<words, maxConcurrent, warm, warmMedia, localeEnc>>
wordVars == <<wpc, vpc, vwake, vres, ppc, pres, entries, results, cache,
              wordTs, wordGate, pvGate, validWords>>
mediaVars == <<etasks, epc, attempt, ewake, eret, urlToFilename, disk,
               mediaTs, mediaGate, mediaFiles>>
obsVars == <<reqTimes, netReq, vgets, gets, raised>>
runVars == <<cfgVars, phase, wordVars, mediaVars, obsVars>>
vars == <<clock, limVars, runVars>>

\* ------------------------------------------------------- AsyncRateLimiter
\* while self.timestamps and self.timestamps[0] <= now - self.period: popleft()
PruneNever(ts, now) == ts

RECURSIVE Prune(_, _)
Prune(ts, now) ==
  IF ts # <<>> /\ Head(ts) <= now - PERIOD THEN Prune(Tail(ts), now) ELSE ts

\* if len(self.timestamps) < self.max_calls: break
HasSlotLoose(ts, max_calls) == Len(ts) <= max_calls

HasSlot(ts, max_calls) == Len(ts) < max_calls

\* sleep_time = self.period - (now - self.timestamps[0])
SleepTime(ts, now) == PERIOD - (now - Head(ts))

\* One iteration of the loop of wait(), which runs without suspending up to
\* the break (and the append after it), the sleep, or the IndexError that
\* timestamps[0] raises on an empty deque.
WaitIter(ts, max_calls, now) ==
  LET p == Prune(ts, now) IN
  IF HasSlot(p, max_calls)
    THEN [kind |-> "admit", ts |-> Append(p, now), wake |-> now]
    ELSE IF p = <<>>
      THEN [kind |-> "raise", ts |-> p, wake |-> now]
      ELSE [kind |-> "sleep", ts |-> p, wake |-> now + SleepTime(p, now)]

\* ------------------------------------------------------------- text, files
Utf8(cp) ==
  IF cp < 128 THEN <<cp>>
  ELSE IF cp < 2048 THEN <<192 + (cp \div 64), 128 + (cp % 64)>>
  ELSE <<224 + (cp \div 4096), 128 + ((cp \div 64) % 64), 128 + (cp % 64)>>

\* str.encode("utf-8")
RECURSIVE EncodeUtf8(_)
EncodeUtf8(text) ==
  IF text = <<>> THEN <<>> ELSE Utf8(Head(text)) \o EncodeUtf8(Tail(text))

IsCont(b) == b >= 128 /\ b < 192

\* bytes.decode("utf-8"): an optional text, empty on UnicodeDecodeError
RECURSIVE DecodeUtf8(_)
DecodeUtf8(bytes) ==
  IF bytes = <<>> THEN << <<>> >>
  ELSE LET b == Head(bytes)
           n == IF b < 128 THEN 1
                ELSE IF b >= 194 /\ b < 224 THEN 2
                ELSE IF b >= 224 /\ b < 240 THEN 3 ELSE 0
       IN IF n = 0 \/ Len(bytes) < n
               \/ \E k \in 2..n : ~IsCont(bytes[k])
          THEN <<>>
          ELSE LET cp == IF n = 1 THEN b
                         ELSE IF n = 2
                           THEN (b - 192) * 64 + (bytes[2] - 128)
                           ELSE (b - 224) * 4096 + (bytes[2] - 128) * 64
                                + (bytes[3] - 128)
                   rest == DecodeUtf8(SubSeq(bytes, n + 1, Len(bytes)))
               IN IF rest = <<>> \/ (n = 2 /\ cp < 128) \/ (n = 3 /\ cp < 2048)
                  THEN <<>> ELSE << <<cp>> \o rest[1] >>

\* The code page 1252 characters of the bytes 0x80..0x9F (0: undefined).
Cp1252High ==
  <<8364, 0, 8218, 402, 8222, 8230, 8224, 8225, 710, 8240, 352, 8249, 338,
    0, 381, 0, 0, 8216, 8217, 8220, 8221, 8226, 8211, 8212, 732, 8482, 353,
    8250, 339, 0, 382, 376>>

\* bytes.decode("cp1252")
RECURSIVE DecodeCp1252(_)
DecodeCp1252(bytes) ==
  IF bytes = <<>> THEN << <<>> >>
  ELSE LET b == Head(bytes)
           cp == IF b < 128 \/ b >= 160 THEN b ELSE Cp1252High[b - 127]
           rest == DecodeCp1252(Tail(bytes))
       IN IF cp = 0 \/ rest = <<>> THEN <<>> ELSE << <<cp>> \o rest[1] >>

Encodings == {"utf-8", "cp1252"}
Decode(enc, bytes) ==
  IF enc = "utf-8" THEN DecodeUtf8(bytes) ELSE DecodeCp1252(bytes)

\* a string written to the file (c.dir = "encode") or read from it with the
\* encoding c.enc
Conv(c, str) ==
  IF c.dir = "encode" THEN EncodeUtf8(str) ELSE Decode(c.enc, str)[1]

MapSeq(c, s) == [i \in DOMAIN s |-> Conv(c, s[i])]

\* The strings of an entry list, each converted by c; json.dumps and
\* json.loads keep the structure (lists, dicts, strings) as it is.
MapSense(c, s) ==
  [definition |-> Conv(c, s.definition), examples |-> MapSeq(c, s.examples),
   level |-> Conv(c, s.level)]
MapPron(c, p) == [ipa |-> Conv(c, p.ipa), audio |-> Conv(c, p.audio)]
MapIdiom(c, d) ==
  [idiom |-> Conv(c, d.idiom), definition |-> Conv(c, d.definition),
   examples |-> MapSeq(c, d.examples)]
MapPv(c, v) ==
  [phrasal_verb |-> Conv(c, v.phrasal_verb),
   senses |-> [i \in DOMAIN v.senses |-> MapSense(c, v.senses[i])]]
MapEntry(c, e) ==
  IF DOMAIN e = {} THEN e
  ELSE [headword |-> Conv(c, e.headword),
        part_of_speech |-> Conv(c, e.part_of_speech),
        pronunciations |-> [uk |-> MapPron(c, e.pronunciations.uk),
                            us |-> MapPron(c, e.pronunciations.us)],
        meanings |-> [i \in DOMAIN e.meanings |-> MapSense(c, e.meanings[i])],
        idioms |-> [i \in DOMAIN e.idioms |-> MapIdiom(c, e.idioms[i])],
        phrasal_verbs |->
          [i \in DOMAIN e.phrasal_verbs |-> MapPv(c, e.phrasal_verbs[i])]]
MapEntries(c, es) == [i \in DOMAIN es |-> MapEntry(c, es[i])]

\* every string of an entry list
SenseStrings(s) ==
  {s.definition, s.level} \cup {s.examples[i] : i \in DOMAIN s.examples}
EntryStrings(e) ==
  IF DOMAIN e = {} THEN {}
  ELSE {e.headword, e.part_of_speech, e.pronunciations.uk.ipa,
        e.pronunciations.uk.audio, e.pronunciations.us.ipa,
        e.pronunciations.us.audio}
       \cup UNION {SenseStrings(e.meanings[i]) : i \in DOMAIN e.meanings}
       \cup UNION {{e.idioms[i].idiom, e.idioms[i].definition}
                   \cup {e.idioms[i].examples[j] :
                           j \in DOMAIN e.idioms[i].examples} :
                   i \in DOMAIN e.idioms}
       \cup UNION {{e.phrasal_verbs[i].phrasal_verb}
                   \cup UNION {SenseStrings(e.phrasal_verbs[i].senses[j]) :
                                 j \in DOMAIN e.phrasal_verbs[i].senses} :
                   i \in DOMAIN e.phrasal_verbs}
EntriesStrings(es) == UNION {EntryStrings(es[i]) : i \in DOMAIN es}

\* f.write(json.dumps(self.entries, ensure_ascii=False)), encoding="utf-8"
Serialize(es) == MapEntries([dir |-> "encode", enc |-> "utf-8"], es)

\* json.loads(await f.read()) of a file opened with the default encoding:
\* the optional entry list, empty when the text cannot be decoded
Deserialize(enc, data) ==
  IF \E b \in EntriesStrings(data) : Decode(enc, b) = <<>>
    THEN <<>>
    ELSE << MapEntries([dir |-> "decode", enc |-> enc], data) >>

\* ------------------------------------------------ the dictionary site
\* What the site serves is fixed for a run; which request is answered first
\* is not.  A page is what BeautifulSoup finds in it.
NoText == <<>>
T_run == <<114, 117, 110>>            \* "run"
T_verb == <<118>>
T_noun == <<110>>
T_ipa_run == <<114, 652, 110>>        \* the transcription of "run", U+028C
T_ipa_cut == <<107, 720, 116>>        \* one with the length mark, U+02D0
T_def == <<100>>
T_ex == <<101>>
T_a1 == <<65, 49>>                    \* a CEFR level
T_run_up == <<114, 32, 117>>
T_run_in == <<114, 32, 105>>
T_run_on == <<114, 32, 111>>
T_idm == <<105>>
U_run == <<47, 114>>                  \* audio URLs
U_run_uk == <<47, 114, 107>>

PageSense == [def |-> <<T_def>>, examples |-> <<T_ex>>, level |-> T_a1]
NoPron == <<>>                        \* the page has no such div
Pron(ipa, audio) == <<[ipa |-> <<ipa>>, audio |-> <<audio>>]>>

\* a full entry page: pronunciations, a sense, an idiom, four links to
\* phrasal verbs of which two carry the same verb
PageRunVerb ==
  [headword |-> <<T_run>>, pos |-> <<T_verb>>,
   phons_br |-> Pron(T_ipa_run, U_run_uk),
   phons_n_am |-> Pron(T_ipa_run, U_run),
   senses |-> <<PageSense>>,
   idioms |-> <<[idm |-> T_idm, def |-> <<T_def>>, examples |-> <<T_ex>>]>>,
   pv_links |-> << <<T_run_up, "run-up">>, <<T_run_in, "run-in">>,
                   <<T_run_on, "run-on">>, <<T_run_up, "run-up_2">> >>]
\* a plain entry page with the same American recording
PageRunNoun ==
  [headword |-> <<T_run>>, pos |-> <<T_noun>>,
   phons_br |-> NoPron, phons_n_am |-> Pron(T_ipa_run, U_run),
   senses |-> <<[def |-> <<>>, examples |-> <<>>, level |-> NoText]>>,
   idioms |-> <<>>,
   pv_links |-> <<>>]
\* an entry page with an idiom that has no definition span
PageCut ==
  [PageRunNoun EXCEPT
     !.idioms = <<[idm |-> T_idm, def |-> <<>>, examples |-> <<>>]>>]
\* an entry page with a transcription that has a length mark, no recording
PageCutNoun ==
  [PageRunNoun EXCEPT
     !.phons_n_am = <<[ipa |-> <<T_ipa_cut>>, audio |-> <<>>]>>]
\* pages that are not entries
PageNoHeadword == [PageRunNoun EXCEPT !.headword = <<>>]
PageNoPos == [PageRunNoun EXCEPT !.pos = <<>>]

WordSet == {"run", "cut", "xyzzy", "boom"}   \* the words the run may meet

\* session.get(f"{BASE_URL}{word}_{n}"): a page, a non-200 status, or a
\* body that response.text() cannot decode
Web(word, n) ==
  CASE word = "run" /\ n = 1 -> [kind |-> "page", page |-> PageRunVerb]
    [] word = "run" /\ n = 2 -> [kind |-> "page", page |-> PageRunNoun]
    [] word = "run" /\ n = 3 -> [kind |-> "page", page |-> PageNoHeadword]
    [] word = "cut" /\ n = 1 -> [kind |-> "page", page |-> PageCut]
    [] word = "cut" /\ n = 2 -> [kind |-> "page", page |-> PageCutNoun]
    [] word = "xyzzy" /\ n = 2 -> [kind |-> "page", page |-> PageNoPos]
    [] word = "boom" /\ n = 1 -> [kind |-> "page", page |-> PageRunNoun]
    [] word = "boom" /\ n = 2 -> [kind |-> "undecodable"]
    [] OTHER -> [kind |-> "status"]

\* session.get(href) of a phrasal-verb page
PvWeb(href) ==
  CASE href = "run-up" -> [kind |-> "page", senses |-> <<PageSense>>]
    [] href = "run-up_2" ->
         [kind |-> "page", senses |-> <<PageSense, PageSense>>]
    [] href = "run-on" -> [kind |-> "page", senses |-> <<>>]
    [] OTHER -> [kind |-> "status"]

\* ----------------------------------------------------- Word: parsing
\* word.strip().lower(); the words of the model are in normal form
Normalize(w) == w

CACHE_VERSION == "v1"
\* hashlib.md5(f"{word}_{CACHE_VERSION}".encode()).hexdigest() + ".json"
CachePath(w) == <<"md5", Normalize(w), CACHE_VERSION, ".json">>
CachePaths == {CachePath(w) : w \in WordSet}

\* self._is_valid_entry(soup), soup the optional page; first without the
\* test for the part of speech
IsValidEntryNoPos(soup) == soup # <<>> /\ soup[1].headword # <<>>

IsValidEntry(soup) ==
  soup # <<>> /\ soup[1].headword # <<>> /\ soup[1].pos # <<>>

OrEmpty(opt) == IF opt = <<>> THEN NoText ELSE opt[1]

GetPronunciation(div) ==
  IF div = <<>> THEN [ipa |-> NoText, audio |-> NoText]
  ELSE [ipa |-> OrEmpty(div[1].ipa), audio |-> OrEmpty(div[1].audio)]

GetPronunciations(page) ==
  [uk |-> GetPronunciation(page.phons_br),
   us |-> GetPronunciation(page.phons_n_am)]

ParseSense(s) ==
  [definition |-> OrEmpty(s.def), examples |-> s.examples, level |-> s.level]

GetMeanings(page) == [i \in DOMAIN page.senses |-> ParseSense(page.senses[i])]

\* _parse_idiom raises AttributeError when the definition is missing
IdiomsRaise(page) == \E i \in DOMAIN page.idioms : page.idioms[i].def = <<>>

GetIdioms(page) ==
  [i \in DOMAIN page.idioms |->
     [idiom |-> page.idioms[i].idm, definition |-> page.idioms[i].def[1],
      examples |-> page.idioms[i].examples]]

\* pv_links[verb.text.strip()] = full_url, over the links in page order: a
\* dict, kept as the sequence of its items
DictPut(d, k, v) ==
  IF \E i \in DOMAIN d : d[i][1] = k
    THEN [i \in DOMAIN d |-> IF d[i][1] = k THEN <<k, v>> ELSE d[i]]
    ELSE Append(d, <<k, v>>)

RECURSIVE DictOf(_)
DictOf(links) ==
  IF links = <<>> THEN <<>>
  ELSE LET n == Len(links)
       IN DictPut(DictOf(SubSeq(links, 1, n - 1)), links[n][1], links[n][2])

PvLinks(page) == DictOf(page.pv_links)

\* the pages the site serves, and the dict that get_phrasal_verbs builds from
\* each of them, computed once per page
SitePages ==
  UNION {{Web(w, n).page : n \in {x \in 1..5 : Web(w, x).kind = "page"}} :
           w \in WordSet}

PvLinksOf == [page \in SitePages |-> PvLinks(page)]

\* what get_phrasal_verbs starts for a page that _process_entry gets to
PvTasks(soup) ==
  IF IsValidEntry(soup) /\ ~IdiomsRaise(soup[1]) THEN PvLinksOf[soup[1]] ELSE <<>>

\* _parse_pv_page
ParsePvPage(senses) == [i \in DOMAIN senses |-> ParseSense(senses[i])]

RECURSIVE SelectSeq2(_, _)
SelectSeq2(s, keep) ==
  IF s = <<>> THEN <<>>
  ELSE (IF keep[1] THEN <<Head(s)>> ELSE <<>>)
       \o SelectSeq2(Tail(s), Tail(keep))

\* if data: the results that are neither None nor an empty list
PvKeepAll(data) == data # <<>>

PvKeep(data) == data # <<>> /\ data[1] # <<>>

\* [{"phrasal_verb": verb, "senses": data} for verb, data in results if data]
GetPhrasalVerbs(page, datas) ==
  LET links == PvLinksOf[page]
      all == [k \in DOMAIN links |->
                [phrasal_verb |-> links[k][1],
                 senses |-> IF datas[k] = <<>> THEN <<>> ELSE datas[k][1]]]
  IN SelectSeq2(all, [k \in DOMAIN links |-> PvKeep(datas[k])])

\* _process_entry(soup, session), given the results of its sub-fetches
ProcessEntry(page, datas) ==
  IF IdiomsRaise(page) THEN <<>>
  ELSE [headword |-> OrEmpty(page.headword),
        part_of_speech |-> OrEmpty(page.pos),
        pronunciations |-> GetPronunciations(page),
        meanings |-> GetMeanings(page),
        idioms |-> GetIdioms(page),
        phrasal_verbs |-> GetPhrasalVerbs(page, datas)]

\* ------------------------------------- what a resolution finds on the site
PageAt(w, n) ==
  IF Web(w, n).kind = "page" THEN <<Web(w, n).page>> ELSE <<>>

PvData(soup) ==
  [k \in DOMAIN PvTasks(soup) |->
     LET resp == PvWeb(PvTasks(soup)[k][2])
     IN IF resp.kind = "page" THEN <<ParsePvPage(resp.senses)>> ELSE <<>>]

\* found, not found, or an error raised in fetching
Outcome(w) ==
  IF \E n \in Variations : Web(w, n).kind = "undecodable" THEN "error"
  ELSE IF \E n \in Variations : IsValidEntry(PageAt(w, n)) THEN "found"
  ELSE "NotFound"

\* the entry list fetch_word builds for a word that is found
Resolution(w) ==
  SelectSeq2([n \in Variations |->
                IF IsValidEntry(PageAt(w, n))
                  THEN ProcessEntry(PageAt(w, n)[1], PvData(PageAt(w, n)))
                  ELSE <<>>],
             [n \in Variations |-> IsValidEntry(PageAt(w, n))])

\* the cache file an earlier run wrote for the word
Cached(w) == <<[full |-> TRUE, data |-> Serialize(Resolution(w))]>>

\* ------------------------------------------------------- the event loop
\* async with self.word_semaphore: the task gets past it without waiting
WordGateOpenAlways == TRUE

WordGateOpen == wordGate < maxConcurrent

\* What a task needs to go on without waiting for the network, a file or a
\* timer.
CanEnter(i) == phase = "words" /\ wpc[i] = "start" /\ WordGateOpen
CanVLimit(i, n) == vpc[i][n] = "limiter" /\ clock >= vwake[i][n]
CanGather(i) ==
  wpc[i] = "variations" /\ \A n \in Variations : vpc[i][n] = "done"
CanPvEnter(i, n, k) == ppc[i][n][k] = "gate" /\ pvGate < PvPermits
CanCacheOpenEarly(i) == wpc[i] = "processing"

CanCacheOpen(i) ==
  /\ wpc[i] = "processing"
  /\ \A n \in Variations : \A k \in DOMAIN ppc[i][n] : ppc[i][n][k] = "done"
\* results = await gather(*tasks); first going on with the first result
CanStartEntriesEarly == phase = "words" /\ \E i \in Tasks : wpc[i] = "done"

CanStartEntries == phase = "words" /\ \A i \in Tasks : wpc[i] = "done"
CanEntryStart(j) == phase = "entries" /\ epc[j] = "start"
CanMediaEnter(j) == epc[j] = "gate" /\ mediaGate < maxConcurrent
CanMediaLimit(j) == epc[j] = "limiter" /\ clock >= ewake[j]
CanFinish == phase = "entries" /\ \A j \in DOMAIN epc : epc[j] = "done"

\* The steps that are ready.  A step is <<group, task, position, n, k>>:
\* group 1 the word tasks and their sub-tasks, group 2 generate_deck itself,
\* group 3 the entry tasks.
EnterStep(i) == <<1, i, 1, 0, 0>>
VLimitStep(i, n) == <<1, i, 2, n, 0>>
GatherStep(i) == <<1, i, 3, 0, 0>>
PvEnterStep(i, n, k) == <<1, i, 4, n, k>>
CacheOpenStep(i) == <<1, i, 5, 0, 0>>
StartEntriesStep == <<2, 0, 1, 0, 0>>
FinishStep == <<2, 0, 2, 0, 0>>
EntryStartStep(j) == <<3, j, 1, 0, 0>>
MediaEnterStep(j) == <<3, j, 2, 0, 0>>
MediaLimitStep(j) == <<3, j, 3, 0, 0>>

Steps ==
  {EnterStep(i) : i \in {x \in Tasks : CanEnter(x)}}
  \cup {GatherStep(i) : i \in {x \in Tasks : CanGather(x)}}
  \cup {CacheOpenStep(i) : i \in {x \in Tasks : CanCacheOpen(x)}}
  \cup UNION {{VLimitStep(i, n) : n \in {x \in Variations : CanVLimit(i, x)}} :
              i \in Tasks}
  \cup UNION {UNION {{PvEnterStep(i, n, k) :
                        k \in {x \in DOMAIN ppc[i][n] : CanPvEnter(i, n, x)}} :
                     n \in Variations} : i \in Tasks}
  \cup (IF CanStartEntries THEN {StartEntriesStep} ELSE {})
  \cup (IF CanFinish THEN {FinishStep} ELSE {})
  \cup {EntryStartStep(j) : j \in {x \in DOMAIN epc : CanEntryStart(x)}}
  \cup {MediaEnterStep(j) : j \in {x \in DOMAIN epc : CanMediaEnter(x)}}
  \cup {MediaLimitStep(j) : j \in {x \in DOMAIN epc : CanMediaLimit(x)}}

Before(a, b) ==
  \E p \in 1..5 : a[p] < b[p] /\ \A q \in 1..(p - 1) : a[q] = b[q]

\* The event loop runs the tasks that are ready one at a time, each up to the
\* point where it has to wait, in a fixed order (the order of the word list,
\* the order in which gather was given the tasks); a semaphore wakes its
\* waiters in that order too.
Turn(step) == \A b \in Steps : b = step \/ Before(step, b)

\* Only when no task is ready does the loop wait for a response, a file
\* operation or a timer.
Runnable ==
  \/ \E i \in Tasks :
       \/ CanEnter(i) \/ CanGather(i) \/ CanCacheOpen(i)
       \/ \E n \in Variations :
            \/ CanVLimit(i, n)
            \/ \E k \in DOMAIN ppc[i][n] : CanPvEnter(i, n, k)
  \/ CanStartEntries \/ CanFinish
  \/ \E j \in DOMAIN epc :
       CanEntryStart(j) \/ CanMediaEnter(j) \/ CanMediaLimit(j)

\* ------------------------------------------------------- observations
Kinds == {"variation", "pv", "media"}
Logged(kind) == [reqTimes EXCEPT ![kind] = Append(@, clock)]

\* --------------------------- AnkiGenerator._process_word, Word.initialize
AudioURLs == {U_run, U_run_uk}
\* hashlib.md5(url.encode()).hexdigest() + ".mp3"
FileName(url) == <<"md5", url, ".mp3">>
FileNames == {FileName(u) : u \in AudioURLs}

\* async with aiohttp.ClientSession(...) as session, in Word.initialize
SessionOpen(i) == wpc[i] \in {"variations", "processing", "writing"}

\* the end of an "async with" on a semaphore, however the block is left:
\* the permit goes back; first an exit that keeps it
ReleasedNot(gate) == gate

Released(gate) == gate - 1

\* _process_word returns: the semaphore is released
Returns(i, res) ==
  /\ wpc' = [wpc EXCEPT ![i] = "done"]
  /\ results' = [results EXCEPT ![i] = res]
  /\ wordGate' = Released(wordGate)

\* self.valid_words += 1, and without the addition
IncrementedNot(n) == n

Incremented(n) == n + 1

\* except WordNotFound: return None / except Exception as e: return None
ExceptOnlyNotFound(exc) ==
  IF exc = "WordNotFound" THEN "return None" ELSE "propagate"

Except(exc) ==
  IF exc \in {"WordNotFound", "Exception"} THEN "return None" ELSE "propagate"

\* an exception reaches the try of _process_word; one it does not catch
\* leaves the task, and gather hands it to generate_deck, which ends
Raises(i, exc) ==
  /\ Returns(i, <<>>)
  /\ raised' = [raised EXCEPT ![i] = exc]
  /\ phase' = IF Except(exc) = "return None" THEN phase ELSE "aborted"

\* fetch_word creates one _fetch_variation task per numbered page
StartFetch(i) ==
  /\ wpc' = [wpc EXCEPT ![i] = "variations"]
  /\ vpc' = [vpc EXCEPT ![i] = [n \in Variations |-> "limiter"]]
  /\ vwake' = [vwake EXCEPT ![i] = [n \in Variations |-> 0]]

\* async with self.word_semaphore; Word(word_str); _try_load_cached_data up
\* to cache_path.exists()
Enter(i) ==
  /\ CanEnter(i)
  /\ Turn(EnterStep(i))
  /\ IF cache[CachePath(words[i])] = <<>>
       THEN /\ StartFetch(i)
            /\ wordGate' = wordGate + 1
       ELSE /\ wpc' = [wpc EXCEPT ![i] = "reading"]
            /\ wordGate' = wordGate + 1
            /\ UNCHANGED <<vpc, vwake>>
  /\ UNCHANGED <<clock, limVars, cfgVars, phase, vres, ppc, pres, entries,
                 results, cache, wordTs, pvGate, validWords, mediaVars,
                 obsVars>>

\* aiofiles.open(cache_path, "r") uses the platform's default encoding;
\* self.entries = json.loads(await f.read()); a failure is a miss
CacheRead(i, enc) ==
  /\ wpc[i] = "reading"
  /\ ~Runnable
  /\ enc \in (IF localeEnc = "unset" THEN Encodings ELSE {localeEnc})
  /\ localeEnc' = enc
  /\ LET file == cache[CachePath(words[i])][1]
         loaded == IF file.full THEN Deserialize(enc, file.data)
                   ELSE <<>>
     IN IF loaded # <<>>
          THEN /\ entries' = [entries EXCEPT ![i] = loaded[1]]
               /\ validWords' = Incremented(validWords)
               /\ Returns(i, <<loaded[1]>>)
               /\ UNCHANGED <<vpc, vwake>>
          ELSE /\ StartFetch(i)
               /\ UNCHANGED <<entries, validWords, results, wordGate>>
  /\ UNCHANGED <<clock, limVars, words, maxConcurrent, warm, warmMedia, phase,
                 vres, ppc, pres, cache, wordTs, pvGate, mediaVars, obsVars>>

\* _fetch_variation: await self.RATE_LIMITER.wait(), then session.get(url);
\* on a session already closed session.get raises and sends nothing
VLimit(i, n) ==
  /\ CanVLimit(i, n)
  /\ Turn(VLimitStep(i, n))
  /\ LET r == WaitIter(wordTs, WordMaxCalls, clock) IN
     /\ wordTs' = r.ts
     /\ vwake' = [vwake EXCEPT ![i][n] = r.wake]
     /\ IF r.kind = "admit" /\ SessionOpen(i)
          THEN /\ vpc' = [vpc EXCEPT ![i][n] = "inflight"]
               /\ reqTimes' = Logged("variation")
               /\ netReq' = [netReq EXCEPT ![i] = @ + 1]
               /\ vgets' = [vgets EXCEPT ![i][n] = @ + 1]
          ELSE /\ vpc' = [vpc EXCEPT ![i][n] =
                            IF r.kind = "sleep" THEN "limiter" ELSE "done"]
               /\ UNCHANGED <<reqTimes, netReq, vgets>>
  /\ UNCHANGED <<clock, limVars, cfgVars, phase, wpc, vres, ppc, pres,
                 entries, results, cache, wordGate, pvGate, validWords,
                 mediaVars, gets, raised>>

\* where _fetch_variation is after the response: it returns (return None
\* for a status other than 200, a ClientError or a timeout); first with a
\* second try in place of return None
AfterResponseRetry(resp) == IF resp.kind = "status" THEN "limiter" ELSE "done"

AfterResponse(resp) == "done"

\* _fetch_variation, the response: the page for status 200, None for
\* another status; any other exception leaves _fetch_variation, gather
\* passes it on through fetch_word and initialize to _process_word
VResp(i, n) ==
  /\ vpc[i][n] = "inflight"
  /\ ~Runnable
  /\ vpc' = [vpc EXCEPT ![i][n] = AfterResponse(Web(Normalize(words[i]), n))]
  /\ LET resp == Web(Normalize(words[i]), n) IN
     IF ~SessionOpen(i)
       THEN UNCHANGED <<vres, wpc, results, wordGate, phase, raised>>
       ELSE IF resp.kind = "undecodable"
         THEN /\ Raises(i, "Exception")
              /\ UNCHANGED vres
         ELSE /\ vres' = [vres EXCEPT ![i][n] =
                            IF resp.kind = "page" THEN <<resp.page>> ELSE <<>>]
              /\ UNCHANGED <<wpc, results, wordGate, phase, raised>>
  /\ UNCHANGED <<clock, limVars, cfgVars, vwake, ppc, pres, entries,
                 cache, wordTs, pvGate, validWords, mediaVars, reqTimes,
                 netReq, vgets, gets>>

ValidPages(i) ==
  SelectSeq2([n \in Variations |-> vres[i][n]],
             [n \in Variations |-> IsValidEntry(vres[i][n])])

\* fetch_word after the first gather: one _process_entry per valid page,
\* each starting its phrasal-verb sub-fetches; WordNotFound if there is none
Gathered(i) ==
  /\ CanGather(i)
  /\ Turn(GatherStep(i))
  /\ IF ValidPages(i) = <<>>
       THEN /\ Raises(i, "WordNotFound")
            /\ UNCHANGED <<ppc, pres>>
       ELSE /\ wpc' = [wpc EXCEPT ![i] = "processing"]
            /\ ppc' = [ppc EXCEPT ![i] =
                 [n \in Variations |->
                    [k \in DOMAIN PvTasks(vres[i][n]) |-> "gate"]]]
            /\ pres' = [pres EXCEPT ![i] =
                 [n \in Variations |->
                    [k \in DOMAIN PvTasks(vres[i][n]) |-> <<>>]]]
            /\ UNCHANGED <<results, wordGate, phase, raised>>
  /\ UNCHANGED <<clock, limVars, cfgVars, vpc, vwake, vres, entries,
                 cache, wordTs, pvGate, validWords, mediaVars, reqTimes,
                 netReq, vgets, gets>>

\* _fetch_pv_data: async with self.PV_SEMAPHORE, then session.get(url)
PvEnter(i, n, k) ==
  /\ CanPvEnter(i, n, k)
  /\ Turn(PvEnterStep(i, n, k))
  /\ pvGate' = pvGate + 1
  /\ ppc' = [ppc EXCEPT ![i][n][k] = "inflight"]
  /\ reqTimes' = Logged("pv")
  /\ netReq' = [netReq EXCEPT ![i] = @ + 1]
  /\ UNCHANGED vgets
  /\ UNCHANGED <<clock, limVars, cfgVars, phase, wpc, vpc, vwake, vres, pres,
                 entries, results, cache, wordTs, wordGate, validWords,
                 mediaVars, gets, raised>>

\* _fetch_pv_data, the response: (verb, senses), or (verb, None) on any
\* exception; the semaphore is released
PvResp(i, n, k) ==
  /\ ppc[i][n][k] = "inflight"
  /\ ~Runnable
  /\ LET resp == PvWeb(PvTasks(vres[i][n])[k][2]) IN
     pres' = [pres EXCEPT ![i][n][k] =
                IF resp.kind = "page" THEN <<ParsePvPage(resp.senses)>>
                ELSE <<>>]
  /\ ppc' = [ppc EXCEPT ![i][n][k] = "done"]
  /\ pvGate' = Released(pvGate)
  /\ UNCHANGED <<clock, limVars, cfgVars, phase, wpc, vpc, vwake, vres,
                 entries, results, cache, wordTs, wordGate, validWords,
                 mediaVars, obsVars>>

\* self.entries = await asyncio.gather(*process_tasks)
BuiltEntries(i) ==
  SelectSeq2([n \in Variations |->
                IF IsValidEntry(vres[i][n])
                  THEN ProcessEntry(vres[i][n][1], pres[i][n]) ELSE <<>>],
             [n \in Variations |-> IsValidEntry(vres[i][n])])

\* fetch_word returns; _cache_processed_data opens the cache file for
\* writing, which creates or truncates it
CacheOpen(i) ==
  /\ CanCacheOpen(i)
  /\ Turn(CacheOpenStep(i))
  /\ entries' = [entries EXCEPT ![i] = BuiltEntries(i)]
  /\ cache' = [cache EXCEPT ![CachePath(words[i])] =
                 <<[full |-> FALSE, data |-> <<>>]>>]
  /\ wpc' = [wpc EXCEPT ![i] = "writing"]
  /\ UNCHANGED <<clock, limVars, cfgVars, phase, vpc, vwake, vres, ppc, pres,
                 results, wordTs, wordGate, pvGate, validWords, mediaVars,
                 obsVars>>

\* except Exception as e: print(f"Cache save failed: {str(e)}"), and the
\* same without the handler
SaveFailedRaise == "raise"

SaveFailed == "print"

\* await f.write(json.dumps(self.entries, ensure_ascii=False)), which the
\* file system carries out (ok) or answers with an error that leaves the
\* file as it was opened; initialize returns; self.valid_words += 1;
\* return word.entries
CacheWrite(i, ok) ==
  /\ wpc[i] = "writing"
  /\ ~Runnable
  /\ cache' = IF ok
                THEN [cache EXCEPT ![CachePath(words[i])] =
                        <<[full |-> TRUE, data |-> Serialize(entries[i])]>>]
                ELSE cache
  /\ IF ok \/ SaveFailed = "print"
       THEN /\ validWords' = Incremented(validWords)
            /\ Returns(i, <<entries[i]>>)
            /\ UNCHANGED <<phase, raised>>
       ELSE /\ Raises(i, "Exception")
            /\ UNCHANGED validWords
  /\ UNCHANGED <<clock, limVars, cfgVars, vpc, vwake, vres, ppc, pres,
                 entries, wordTs, pvGate, mediaVars, reqTimes, netReq,
                 vgets, gets>>

\* -------------------- AnkiGenerator._process_entry, MediaDownloader
\* entry.get('pronunciations', {}).get('us', {}).get('audio')
UsAudio(e) ==
  IF "pronunciations" \in DOMAIN e THEN e.pronunciations.us.audio ELSE NoText

RECURSIVE Flatten(_)
Flatten(ss) == IF ss = <<>> THEN <<>> ELSE Head(ss) \o Flatten(Tail(ss))

\* for entries in filter(None, results): for entry in entries
EntryTasks ==
  Flatten([i \in Tasks |-> IF results[i] = <<>> THEN <<>> ELSE results[i][1]])

\* generate_deck after "Processing words": one _process_entry per entry
StartEntries ==
  /\ CanStartEntries
  /\ Turn(StartEntriesStep)
  /\ phase' = "entries"
  /\ etasks' = EntryTasks
  /\ epc' = [j \in DOMAIN EntryTasks |-> "start"]
  /\ attempt' = [j \in DOMAIN EntryTasks |-> 0]
  /\ ewake' = [j \in DOMAIN EntryTasks |-> 0]
  /\ eret' = [j \in DOMAIN EntryTasks |-> <<>>]
  /\ gets' = [j \in DOMAIN EntryTasks |-> 0]
  /\ UNCHANGED <<clock, limVars, cfgVars, wordVars, urlToFilename, disk,
                 mediaTs, mediaGate, mediaFiles, reqTimes, netReq,
                 vgets, raised>>

\* download_audio returns to _safe_download, which appends the path of a
\* file name it got to media_files; the notes of the entry are added
Downloaded(j, ret) ==
  /\ epc' = [epc EXCEPT ![j] = "done"]
  /\ eret' = [eret EXCEPT ![j] = ret]
  /\ mediaFiles' = IF ret = <<>> THEN mediaFiles
                   ELSE Append(mediaFiles, ret[1])

\* if url in self.url_to_filename, and without the look into the dict
InMapNever(url) == FALSE

InMap(url) == \E p \in urlToFilename : p[1] = url

\* _process_main_entry, _safe_download, download_audio up to the semaphore
EntryStart(j) ==
  /\ j \in DOMAIN epc
  /\ CanEntryStart(j)
  /\ Turn(EntryStartStep(j))
  /\ LET url == UsAudio(etasks[j]) IN
     IF url = NoText
       THEN Downloaded(j, <<>>)
       ELSE IF InMap(url)
         THEN Downloaded(j, <<(CHOOSE p \in urlToFilename : p[1] = url)[2]>>)
         ELSE /\ epc' = [epc EXCEPT ![j] = "gate"]
              /\ UNCHANGED <<eret, mediaFiles>>
  /\ UNCHANGED <<clock, limVars, cfgVars, phase, wordVars, etasks, attempt,
                 ewake, urlToFilename, disk, mediaTs, mediaGate, obsVars>>

\* async with self.semaphore
MediaEnter(j) ==
  /\ j \in DOMAIN epc
  /\ CanMediaEnter(j)
  /\ Turn(MediaEnterStep(j))
  /\ mediaGate' = mediaGate + 1
  /\ epc' = [epc EXCEPT ![j] = "limiter"]
  /\ UNCHANGED <<clock, limVars, cfgVars, phase, wordVars, etasks, attempt,
                 ewake, eret, urlToFilename, disk, mediaTs, mediaFiles,
                 obsVars>>

\* one attempt: await self.rate_limiter.wait(); if the file exists the URL
\* is registered and the name returned, else session.get(url) is sent
MediaLimit(j) ==
  /\ j \in DOMAIN epc
  /\ CanMediaLimit(j)
  /\ Turn(MediaLimitStep(j))
  /\ LET r == WaitIter(mediaTs, MediaMaxCalls, clock)
         url == UsAudio(etasks[j])
         filename == FileName(url)
     IN /\ mediaTs' = r.ts
        /\ ewake' = [ewake EXCEPT ![j] = r.wake]
        /\ IF r.kind # "admit"
             THEN UNCHANGED <<epc, eret, mediaFiles, urlToFilename,
                              mediaGate, reqTimes, gets>>
             ELSE IF disk[filename] # <<>>
               THEN /\ urlToFilename' = urlToFilename \cup {<<url, filename>>}
                    /\ mediaGate' = Released(mediaGate)
                    /\ Downloaded(j, <<filename>>)
                    /\ UNCHANGED <<reqTimes, gets>>
               ELSE /\ epc' = [epc EXCEPT ![j] = "inflight"]
                    /\ reqTimes' = Logged("media")
                    /\ gets' = [gets EXCEPT ![j] = @ + 1]
                    /\ UNCHANGED <<eret, mediaFiles, urlToFilename, mediaGate>>
  /\ UNCHANGED <<clock, limVars, cfgVars, phase, wordVars, etasks, attempt,
                 disk, netReq, vgets, raised>>

\* if attempt == 2
LastAttemptEarly(att) == att = 1

LastAttempt(att) == att = MaxAttempts - 1

\* await asyncio.sleep(1 * (attempt + 1)), in ticks; first a sleep of the
\* same length after every failure
BackoffFlat(att) == 1 * PERIOD

Backoff(att) == 1 * (att + 1) * PERIOD

\* the response: raise_for_status and read; aiofiles.open(filepath, "wb")
\* creates or truncates the file.  A ClientError or a timeout is caught:
\* None after the last attempt, a sleep and the next attempt otherwise
MediaResp(j, ok) ==
  /\ j \in DOMAIN epc
  /\ epc[j] = "inflight"
  /\ ~Runnable
  /\ IF ok
       THEN /\ disk' = [disk EXCEPT ![FileName(UsAudio(etasks[j]))] =
                          <<[full |-> FALSE, content |-> NoText]>>]
            /\ epc' = [epc EXCEPT ![j] = "writing"]
            /\ UNCHANGED <<attempt, ewake, eret, mediaGate, mediaFiles>>
       ELSE IF LastAttempt(attempt[j])
         THEN /\ mediaGate' = Released(mediaGate)
              /\ Downloaded(j, <<>>)
              /\ UNCHANGED <<attempt, ewake, disk>>
         ELSE /\ epc' = [epc EXCEPT ![j] = "limiter"]
              /\ ewake' = [ewake EXCEPT ![j] = clock + Backoff(attempt[j])]
              /\ attempt' = [attempt EXCEPT ![j] = @ + 1]
              /\ UNCHANGED <<eret, mediaGate, mediaFiles, disk>>
  /\ UNCHANGED <<clock, limVars, cfgVars, phase, wordVars, etasks,
                 urlToFilename, mediaTs, obsVars>>

\* await f.write(content); self.url_to_filename[url] = filename; return
MediaWrite(j) ==
  /\ j \in DOMAIN epc
  /\ epc[j] = "writing"
  /\ ~Runnable
  /\ LET url == UsAudio(etasks[j]) IN
     /\ disk' = [disk EXCEPT ![FileName(url)] =
                   <<[full |-> TRUE, content |-> url]>>]
     /\ urlToFilename' = urlToFilename \cup {<<url, FileName(url)>>}
     /\ mediaGate' = Released(mediaGate)
     /\ Downloaded(j, <<FileName(url)>>)
  /\ UNCHANGED <<clock, limVars, cfgVars, phase, wordVars, etasks, attempt,
                 ewake, mediaTs, obsVars>>

\* generate_deck after "Creating notes": the package is written and
\* valid_words returned
Finish ==
  /\ CanFinish
  /\ Turn(FinishStep)
  /\ phase' = "done"
  /\ UNCHANGED <<clock, limVars, cfgVars, wordVars, mediaVars, obsVars>>

\* ------------------------------------------------------------------- time
Dec(t) == IF t > 0 THEN t - 1 ELSE 0
DecSeq(s) == [i \in DOMAIN s |-> Dec(s[i])]
DecFun(f) == [x \in DOMAIN f |-> Dec(f[x])]

\* the requests of the period that ends at now
Recent(log, now) ==
  [k \in DOMAIN log |-> SelectSeq(log[k], LAMBDA t : t > now - PERIOD)]

TickBody ==
  IF clock < MaxTime
    THEN /\ clock' = clock + 1
         /\ reqTimes' = Recent(reqTimes, clock + 1)
         /\ UNCHANGED <<limVars, cfgVars, phase, wordVars, mediaVars,
                        netReq, vgets, gets, raised>>
    ELSE /\ clock' = clock
         /\ limTimestamps' = DecSeq(limTimestamps)
         /\ cwake' = DecFun(cwake)
         /\ ccalled' = DecFun(ccalled)
         /\ cadmit' = DecFun(cadmit)
         /\ cstamp' = DecFun(cstamp)
         /\ wordTs' = DecSeq(wordTs)
         /\ mediaTs' = DecSeq(mediaTs)
         /\ vwake' = [i \in DOMAIN vwake |-> DecFun(vwake[i])]
         /\ ewake' = DecFun(ewake)
         /\ reqTimes' = Recent([k \in DOMAIN reqTimes |-> DecSeq(reqTimes[k])],
                               clock)
         /\ UNCHANGED <<limBuilt, limMaxCalls, cpc, cslept, cfgVars, phase,
                        wpc, vpc, vres, ppc, pres, entries, results, cache,
                        wordGate, pvGate, validWords, etasks, epc, attempt,
                        eret, urlToFilename, disk, mediaGate, mediaFiles,
                        netReq, vgets, gets, raised>>

\* Time passes only when no task is ready.
Tick ==
  /\ ~Runnable
  /\ TickBody

\* ------------------------------------------------------- the interrupt
\* KeyboardInterrupt: asyncio.run cancels generate_deck and with it every
\* task, main exits (sys.exit).  Nothing of the process is left; the files
\* are.  A cache file that is open for writing stays as it was opened,
\* empty, unless the write that is under way in its thread still gets to
\* the file (the tasks in flushed).
Interrupt(flushed) ==
  /\ phase \in {"words", "entries"}
  /\ \A i \in flushed : wpc[i] = "writing"
  /\ phase' = "interrupted"
  /\ cache' = [p \in CachePaths |->
                 IF \E i \in flushed : p = CachePath(words[i])
                   THEN LET i == CHOOSE x \in flushed : p = CachePath(words[x])
                        IN <<[full |-> TRUE, data |-> Serialize(entries[i])]>>
                   ELSE cache[p]]
  /\ wpc' = [i \in Tasks |-> "cancelled"]
  /\ vpc' = [i \in Tasks |-> [n \in Variations |-> "idle"]]
  /\ vwake' = [i \in Tasks |-> [n \in Variations |-> 0]]
  /\ vres' = [i \in Tasks |-> [n \in Variations |-> <<>>]]
  /\ ppc' = [i \in Tasks |-> [n \in Variations |-> <<>>]]
  /\ pres' = [i \in Tasks |-> [n \in Variations |-> <<>>]]
  /\ entries' = [i \in Tasks |-> <<>>]
  /\ results' = [i \in Tasks |-> <<>>]
  /\ wordTs' = <<>>
  /\ wordGate' = 0
  /\ pvGate' = 0
  /\ validWords' = 0
  /\ etasks' = <<>>
  /\ epc' = <<>>
  /\ attempt' = <<>>
  /\ ewake' = <<>>
  /\ eret' = <<>>
  /\ urlToFilename' = {}
  /\ mediaTs' = <<>>
  /\ mediaGate' = 0
  /\ mediaFiles' = <<>>
  /\ reqTimes' = [k \in Kinds |-> <<>>]
  /\ netReq' = [i \in Tasks |-> 0]
  /\ vgets' = [i \in Tasks |-> [n \in Variations |-> 0]]
  /\ gets' = <<>>
  /\ raised' = [i \in Tasks |-> "none"]
  /\ UNCHANGED <<clock, limVars, cfgVars, disk>>

\* ------------------------------------------------------------ the run
\* asyncio.Semaphore(value): if value < 0: raise ValueError
SemaphoreRaises(value) == value < 0

\* The words of the book in the order in which they first appear; the word
\* lists extract_words produces are what is left of them when the known and
\* the excluded words are taken out: no word twice.
Book == <<"run", "cut", "xyzzy", "boom">>

WordLists ==
  {[i \in Tasks |-> Book[f[i]]] :
     f \in {g \in [Tasks -> DOMAIN Book] :
              \A i, k \in Tasks : i < k => g[i] < g[k]}}

\* the tasks whose word the site has an entry for
FoundTasks(ws) == {i \in Tasks : Outcome(Normalize(ws[i])) = "found"}

\* the recordings an earlier run downloaded for the words of the tasks in
\* wm: the American one of each entry
EarlierMedia(ws, wm) ==
  UNION {{FileName(UsAudio(Resolution(Normalize(ws[i]))[m])) :
            m \in {x \in DOMAIN Resolution(Normalize(ws[i])) :
                     UsAudio(Resolution(Normalize(ws[i]))[x]) # NoText}} :
         i \in wm}

\* AnkiGenerator(max_concurrent=mc) and generate_deck(ws, ...); the word
\* cache holds the words of the tasks in wm from an earlier run (none on
\* the first run, all that were found on a later one), the media cache the
\* files in md (the recordings of those words, or none of them where the
\* downloads of the earlier run failed)
RunStart(ws, mc, wm, md) ==
  /\ words = ws
  /\ maxConcurrent = mc
  /\ warm = wm
  /\ warmMedia = md
  /\ localeEnc = "unset"
  /\ phase = IF SemaphoreRaises(mc) THEN "rejected" ELSE "words"
  /\ wpc = [i \in Tasks |-> "start"]
  /\ vpc = [i \in Tasks |-> [n \in Variations |-> "idle"]]
  /\ vwake = [i \in Tasks |-> [n \in Variations |-> 0]]
  /\ vres = [i \in Tasks |-> [n \in Variations |-> <<>>]]
  /\ ppc = [i \in Tasks |-> [n \in Variations |-> <<>>]]
  /\ pres = [i \in Tasks |-> [n \in Variations |-> <<>>]]
  /\ entries = [i \in Tasks |-> <<>>]
  /\ results = [i \in Tasks |-> <<>>]
  /\ cache = [p \in CachePaths |->
                IF \E i \in wm : p = CachePath(ws[i])
                  THEN Cached(CHOOSE w \in WordSet :
                                \E i \in wm : w = ws[i] /\ p = CachePath(w))
                  ELSE <<>>]
  /\ wordTs = <<>>
  /\ wordGate = 0
  /\ pvGate = 0
  /\ validWords = 0
  /\ etasks = <<>>
  /\ epc = <<>>
  /\ attempt = <<>>
  /\ ewake = <<>>
  /\ eret = <<>>
  /\ urlToFilename = {}
  /\ disk = [f \in FileNames |->
               IF f \in md
                 THEN LET u == CHOOSE x \in AudioURLs : FileName(x) = f
                      IN <<[full |-> TRUE, content |-> u]>>
                 ELSE <<>>]
  /\ mediaTs = <<>>
  /\ mediaGate = 0
  /\ mediaFiles = <<>>
  /\ reqTimes = [k \in Kinds |-> <<>>]
  /\ netReq = [i \in Tasks |-> 0]
  /\ vgets = [i \in Tasks |-> [n \in Variations |-> 0]]
  /\ gets = <<>>
  /\ raised = [i \in Tasks |-> "none"]

NoCallers ==
  /\ limBuilt = FALSE
  /\ limMaxCalls = 0
  /\ limTimestamps = <<>>
  /\ cpc = [c \in Callers |-> "idle"]
  /\ cwake = [c \in Callers |-> 0]
  /\ ccalled = [c \in Callers |-> 0]
  /\ cadmit = [c \in Callers |-> 0]
  /\ cstamp = [c \in Callers |-> 0]
  /\ cslept = [c \in Callers |-> FALSE]

Init ==
  /\ clock = 0
  /\ NoCallers
  /\ \E ws \in WordLists, mc \in ConfigConcurrent :
       \E wm \in {{}, FoundTasks(ws)} :
         \E md \in {{}, EarlierMedia(ws, wm)} : RunStart(ws, mc, wm, md)

Next ==
  \/ \E i \in Tasks : Enter(i)
  \/ \E i \in Tasks, enc \in Encodings : CacheRead(i, enc)
  \/ \E i \in Tasks, n \in Variations : VLimit(i, n)
  \/ \E i \in Tasks, n \in Variations : VResp(i, n)
  \/ \E i \in Tasks : Gathered(i)
  \/ \E i \in Tasks, n \in Variations :
       \E k \in DOMAIN ppc[i][n] : PvEnter(i, n, k)
  \/ \E i \in Tasks, n \in Variations :
       \E k \in DOMAIN ppc[i][n] : PvResp(i, n, k)
  \/ \E i \in Tasks : CacheOpen(i)
  \/ \E i \in Tasks, ok \in BOOLEAN : CacheWrite(i, ok)
  \/ StartEntries
  \/ \E j \in DOMAIN epc : EntryStart(j)
  \/ \E j \in DOMAIN epc : MediaEnter(j)
  \/ \E j \in DOMAIN epc : MediaLimit(j)
  \/ \E j \in DOMAIN epc, ok \in BOOLEAN : MediaResp(j, ok)
  \/ \E j \in DOMAIN epc : MediaWrite(j)
  \/ Finish
  \/ \E flushed \in SUBSET Tasks : Interrupt(flushed)
  \/ Tick

Spec == Init /\ [][Next]_vars

\* ------------------------------------------------- a run that is left alone
\* A generator with gates that admit a task, and no interrupt: every word
\* list with one permit per gate, on a first and on a later run, and the
\* first words of the book with the largest number of permits, on a first
\* run.
FirstWords == [i \in Tasks |-> Book[i]]

InitLive ==
  /\ clock = 0
  /\ NoCallers
  /\ \/ \E ws \in WordLists :
          \E wm \in {{}, FoundTasks(ws)} :
            \E md \in {{}, EarlierMedia(ws, wm)} : RunStart(ws, 1, wm, md)
     \/ RunStart(FirstWords, MaxConcurrent, {}, {})

\* the event loop runs a task that is ready
LoopStep ==
  \/ \E i \in Tasks : Enter(i)
  \/ \E i \in Tasks, n \in Variations : VLimit(i, n)
  \/ \E i \in Tasks : Gathered(i)
  \/ \E i \in Tasks, n \in Variations :
       \E k \in DOMAIN ppc[i][n] : PvEnter(i, n, k)
  \/ \E i \in Tasks : CacheOpen(i)
  \/ StartEntries
  \/ \E j \in DOMAIN epc : EntryStart(j)
  \/ \E j \in DOMAIN epc : MediaEnter(j)
  \/ \E j \in DOMAIN epc : MediaLimit(j)
  \/ Finish

NextLive ==
  \/ LoopStep
  \/ \E i \in Tasks, enc \in Encodings : CacheRead(i, enc)
  \/ \E i \in Tasks, n \in Variations : VResp(i, n)
  \/ \E i \in Tasks, n \in Variations :
       \E k \in DOMAIN ppc[i][n] : PvResp(i, n, k)
  \/ \E i \in Tasks, ok \in BOOLEAN : CacheWrite(i, ok)
  \/ \E j \in DOMAIN epc, ok \in BOOLEAN : MediaResp(j, ok)
  \/ \E j \in DOMAIN epc : MediaWrite(j)
  \/ Tick

\* The event loop goes on running ready tasks, time passes, and every
\* request and every file operation that is under way comes to its end,
\* one way or the other.
SpecLive ==
  /\ InitLive
  /\ [][NextLive]_vars
  /\ WF_vars(LoopStep)
  /\ WF_vars(Tick)
  /\ \A i \in Tasks :
       /\ WF_vars(\E enc \in Encodings : CacheRead(i, enc))
       /\ WF_vars(\E ok \in BOOLEAN : CacheWrite(i, ok))
       /\ \A n \in Variations :
            /\ WF_vars(VResp(i, n))
            /\ WF_vars(\E k \in DOMAIN ppc[i][n] : PvResp(i, n, k))
  /\ \A j \in 1..(NumWords * MAX_ENTRIES) :
       /\ WF_vars(\E ok \in BOOLEAN : MediaResp(j, ok))
       /\ WF_vars(MediaWrite(j))

\* ------------------------------------------- callers of a limiter's wait()
InitLimiter ==
  /\ clock = 0
  /\ NoCallers
  /\ RunStart(CHOOSE ws \in WordLists : TRUE, 0, {}, {})

\* AsyncRateLimiter.__init__: stores its arguments, validates nothing.
New(m) ==
  /\ ~limBuilt
  /\ limBuilt' = TRUE
  /\ limMaxCalls' = m
  /\ limTimestamps' = <<>>
  /\ UNCHANGED <<clock, runVars, cpc, cwake, ccalled, cadmit, cstamp, cslept>>

Iterate(c) ==
  LET r == WaitIter(limTimestamps, limMaxCalls, clock) IN
  /\ limTimestamps' = r.ts
  /\ cpc' = [cpc EXCEPT ![c] = CASE r.kind = "admit" -> "admitted"
                                 [] r.kind = "sleep" -> "sleeping"
                                 [] OTHER -> "raised"]
  /\ cwake' = [cwake EXCEPT ![c] = r.wake]
  /\ cslept' = [cslept EXCEPT ![c] = @ \/ r.kind = "sleep"]
  /\ cadmit' = [cadmit EXCEPT ![c] = IF r.kind = "admit" THEN clock ELSE @]
  /\ cstamp' = [cstamp EXCEPT ![c] =
                  IF r.kind = "admit" THEN r.ts[Len(r.ts)] ELSE @]

\* await limiter.wait(): the first iteration runs at the call
Call(c) ==
  /\ limBuilt
  /\ cpc[c] = "idle"
  /\ ccalled' = [ccalled EXCEPT ![c] = clock]
  /\ Iterate(c)
  /\ UNCHANGED <<clock, runVars, limBuilt, limMaxCalls>>

\* asyncio.sleep(sleep_time) is over: the loop runs again
Resume(c) ==
  /\ cpc[c] = "sleeping"
  /\ clock >= cwake[c]
  /\ Iterate(c)
  /\ UNCHANGED <<clock, runVars, limBuilt, limMaxCalls, ccalled>>

NextLimiter ==
  \/ \E m \in ConfigCalls : New(m)
  \/ \E c \in Callers : Call(c)
  \/ \E c \in Callers : Resume(c)
  \/ Tick

SpecLimiter == InitLimiter /\ [][NextLimiter]_vars

\* The event loop resumes a task whose sleep is over, and time passes.
SpecLimiterLive ==
  /\ SpecLimiter
  /\ WF_vars(Tick)
  /\ \A c \in Callers : WF_vars(Resume(c))

\* =================================================================== claims
\* C1: the network requests of word resolution (variation pages and
\* phrasal-verb pages together) in any window of one period never exceed the
\* max_calls of Word.RATE_LIMITER, and the media requests never exceed the
\* max_calls of the media limiter.
C1_RateBound ==
  /\ Len(reqTimes["variation"]) + Len(reqTimes["pv"]) <= WordMaxCalls
  /\ Len(reqTimes["media"]) <= MediaMaxCalls

\* ---------------------------------------------------------------------- C2
\* the download_audio calls made for a URL
TasksFor(u) == {j \in DOMAIN etasks : UsAudio(etasks[j]) = u}

RECURSIVE SumOver(_, _)
SumOver(f, S) ==
  IF S = {} THEN 0
  ELSE LET x == CHOOSE y \in S : TRUE IN f[x] + SumOver(f, S \ {x})

GetsFor(u) == SumOver(gets, TasksFor(u))

\* no request for the URL has failed: a failure moves its task to the next
\* attempt
NoneFailed(u) == \A j \in TasksFor(u) : attempt[j] = 0

\* C2: concurrent download_audio calls for one URL, on a cold map and a cold
\* disk and with every request succeeding, make one session.get in total,
\* and all of them return the same file name.
C2_Dedup ==
  \A u \in AudioURLs :
    (NoneFailed(u) /\ FileName(u) \notin warmMedia) =>
      /\ GetsFor(u) <= 1
      /\ (TasksFor(u) # {} /\ \A j \in TasksFor(u) : epc[j] = "done") =>
           /\ GetsFor(u) = 1
           /\ \A j \in TasksFor(u) : eret[j] = <<FileName(u)>>

\* ---------------------------------------------------------------------- C3
\* the tasks between the acquire and the release of each gate
WordInside ==
  {i \in Tasks : wpc[i] \in {"reading", "variations", "processing", "writing"}}

PvInside ==
  UNION {UNION {{<<i, n, k>> : k \in {x \in DOMAIN ppc[i][n] :
                                        ppc[i][n][x] = "inflight"}} :
                n \in Variations} : i \in Tasks}

MediaInside ==
  {j \in DOMAIN epc : epc[j] \in {"limiter", "inflight", "writing"}}

\* C3: at most max_concurrent _process_word tasks are inside the word gate,
\* at most PvPermits _fetch_pv_data tasks are inside the phrasal-verb gate
\* over all words, at most max_concurrent download_audio tasks are inside
\* the media gate, and each gate counts its own tasks only (in every run of
\* a generator that could be constructed).
C3_ConcurrencyBound ==
  phase # "rejected" =>
    /\ Cardinality(WordInside) <= maxConcurrent
    /\ Cardinality(PvInside) <= PvPermits
    /\ Cardinality(MediaInside) <= maxConcurrent
    /\ wordGate = Cardinality(WordInside)
    /\ pvGate = Cardinality(PvInside)
    /\ mediaGate = Cardinality(MediaInside)

\* the word gate and the phrasal-verb gate are both full, a word waits at
\* the word gate
C3_Witness ==
  /\ maxConcurrent >= 1
  /\ Cardinality(WordInside) = maxConcurrent
  /\ \E i \in Tasks : wpc[i] = "start"
  /\ Cardinality(PvInside) = PvPermits

\* ---------------------------------------------------------------------- C4
\* the file of the URL was never created: the disk starts cold and only a
\* successful response creates the file
NeverFetched(u) == disk[FileName(u)] = <<>>

\* C4: download_audio for a URL that is not in the map and not on disk and
\* whose every request fails sends exactly 3 requests, returns None, and
\* does not register the URL.
C4_RetryExhaustion ==
  \A j \in DOMAIN epc :
    LET url == UsAudio(etasks[j]) IN
    /\ gets[j] <= MaxAttempts
    /\ (epc[j] = "done" /\ url # NoText /\ NeverFetched(url)) =>
         /\ gets[j] = MaxAttempts
         /\ eret[j] = <<>>
         /\ ~ \E p \in urlToFilename : p[1] = url
         /\ phase \in {"entries", "done"}

\* a download gave up after three failed requests
C4_Witness ==
  \E j \in DOMAIN epc :
    /\ epc[j] = "done" /\ UsAudio(etasks[j]) # NoText
    /\ NeverFetched(UsAudio(etasks[j]))
    /\ gets[j] = 3 /\ attempt[j] = 2 /\ eret[j] = <<>>

\* ---------------------------------------------------------------------- C5
\* C5: initialize() on a cold cache resolves the word from the network and
\* writes the cache (the file is left empty only if the write fails); an
\* initialize() for the word that comes after a write that succeeded (the
\* cache is warm) sends no request and yields the same entry list.
C5_CacheIdempotence ==
  \A i \in Tasks :
    LET w == Normalize(words[i]) IN
    wpc[i] = "done" =>
      /\ (i \notin warm /\ results[i] # <<>>) =>
           /\ netReq[i] > 0
           /\ results[i] = <<Resolution(w)>>
           /\ cache[CachePath(w)] \in
                {Cached(w), <<[full |-> FALSE, data |-> <<>>]>>}
      /\ i \in warm =>
           /\ netReq[i] = 0
           /\ results[i] = <<Resolution(w)>>

\* ---------------------------------------------------------------------- C6
\* the entry pages the site holds for a word
EntryPages(w) ==
  {n \in Variations : IsValidEntry(PageAt(w, n))}

Found == {i \in Tasks : Outcome(Normalize(words[i])) = "found"}

\* C6: whatever the words' outcomes (found, not found, an error in fetching
\* or parsing), generate_deck is not ended by one of them, runs every word
\* to completion, and goes on with the entries of exactly the words that
\* were found.
C6_FailureIsolation ==
  /\ phase # "aborted"
  /\ \A i \in Tasks :
       wpc[i] = "done" =>
         /\ results[i] # <<>> <=> i \in Found
         /\ i \in Found =>
              Len(results[i][1]) = Cardinality(EntryPages(Normalize(words[i])))
  /\ phase \in {"entries", "done"} =>
       /\ \A i \in Tasks : wpc[i] = "done"
       /\ validWords = Cardinality(Found)
       /\ etasks = Flatten([i \in Tasks |->
                              IF i \in Found THEN results[i][1] ELSE <<>>])

\* a run that ended with a word that raised an error and a word that was
\* found
C6_Witness ==
  /\ phase = "done"
  /\ \E i \in Tasks : Outcome(Normalize(words[i])) = "error"
  /\ \E i \in Tasks : i \in Found
  /\ etasks # <<>>

\* ---------------------------------------------------------------------- C7
\* a word resolved from the network, and the page of its m-th entry
FromNetwork(i) == wpc[i] = "done" /\ netReq[i] > 0 /\ results[i] # <<>>

PageOf(i, m) == ValidPages(i)[m][1]

LinkOk(link) == PvWeb(link[2]).kind = "page"

\* the links of a page whose fetch succeeds
OkLinks(page) == {k \in DOMAIN page.pv_links : LinkOk(page.pv_links[k])}

\* C7 as stated: of the k links of an entry's page, f of which fail to
\* fetch, the entry holds k - f phrasal verbs, those of the links whose fetch
\* succeeded, and the entry and the word are resolved.
C7_NestedFetchScoping ==
  \A i \in Tasks :
    FromNetwork(i) =>
      \A m \in DOMAIN results[i][1] :
        LET e == results[i][1][m]
            page == PageOf(i, m)
        IN DOMAIN e # {} =>
             /\ Len(e.phrasal_verbs) = Cardinality(OkLinks(page))
             /\ {e.phrasal_verbs[x].phrasal_verb : x \in DOMAIN e.phrasal_verbs}
                  = {page.pv_links[k][1] : k \in OkLinks(page)}

\* the last link of each verb text
LastLinks(page) ==
  {k \in DOMAIN page.pv_links :
     \A k2 \in DOMAIN page.pv_links :
       k2 > k => page.pv_links[k2][1] # page.pv_links[k][1]}

FirstIndex(page, verb) ==
  CHOOSE k \in DOMAIN page.pv_links :
    /\ page.pv_links[k][1] = verb
    /\ \A k2 \in DOMAIN page.pv_links : k2 < k => page.pv_links[k2][1] # verb

\* the phrasal verbs an entry is to hold
ExpectedPvs(page) ==
  {[phrasal_verb |-> page.pv_links[k][1],
    senses |-> ParsePvPage(PvWeb(page.pv_links[k][2]).senses)] :
     k \in {x \in LastLinks(page) :
              /\ LinkOk(page.pv_links[x])
              /\ PvWeb(page.pv_links[x][2]).senses # <<>>}}

\* C7, amended: an entry holds one phrasal verb per verb text of its page's
\* links, taken from the last link with that text, in the order in which the
\* texts first appear, for exactly the texts whose link was fetched and parsed
\* to at least one sense; a link that fails to fetch is left out, and the
\* entry and the word are resolved all the same.
C7_NestedFetchScopingAmended ==
  \A i \in Tasks :
    /\ (wpc[i] = "done" /\ netReq[i] > 0 /\ i \in Found) => results[i] # <<>>
    /\ FromNetwork(i) =>
         \A m \in DOMAIN results[i][1] :
           LET e == results[i][1][m]
               page == PageOf(i, m)
               pvs == IF DOMAIN e = {} THEN <<>> ELSE e.phrasal_verbs
           IN DOMAIN e # {} =>
                /\ {pvs[x] : x \in DOMAIN pvs} = ExpectedPvs(page)
                /\ Len(pvs) = Cardinality(ExpectedPvs(page))
                /\ \A x, y \in DOMAIN pvs :
                     x < y => FirstIndex(page, pvs[x].phrasal_verb)
                                < FirstIndex(page, pvs[y].phrasal_verb)

\* a resolved entry whose page has a link that fails to fetch, and which
\* holds fewer phrasal verbs than its page has links
C7_Witness ==
  \E i \in Tasks :
    /\ FromNetwork(i)
    /\ \E m \in DOMAIN results[i][1] :
         LET e == results[i][1][m]
             page == PageOf(i, m)
         IN /\ DOMAIN e # {}
            /\ \E k \in DOMAIN page.pv_links : ~LinkOk(page.pv_links[k])
            /\ e.phrasal_verbs # <<>>
            /\ Len(e.phrasal_verbs) < Len(page.pv_links)

\* ------------------------------------------------------------ C8, C9, C10
AdmittedInWindow ==
  {c \in Callers : cpc[c] = "admitted" /\ cadmit[c] > clock - PERIOD}

JustAdmitted(c) == cpc[c] # "admitted" /\ cpc'[c] = "admitted"

\* C8: wait() returns only while fewer than max_calls admissions lie in the
\* trailing period, so the admissions in any window of one period never
\* exceed max_calls; the timestamp recorded for an admission is the time of
\* the admission, not of the call.
C8_LimiterAdmission ==
  /\ [](limBuilt => /\ Cardinality(AdmittedInWindow) <= limMaxCalls
                    /\ Len(limTimestamps) <= limMaxCalls
                    /\ \A c \in Callers :
                         cpc[c] = "admitted" => cstamp[c] = cadmit[c])
  /\ [][\A c \in Callers :
          JustAdmitted(c) => /\ Cardinality(AdmittedInWindow) < limMaxCalls
                             /\ cadmit'[c] = clock
                             /\ cstamp'[c] = clock]_vars

\* a caller that found the limiter full, slept, and was admitted later into
\* a window that is full again
C8_Witness ==
  \E c \in Callers :
    /\ cpc[c] = "admitted" /\ cslept[c] /\ cadmit[c] > ccalled[c]
    /\ cadmit[c] = clock
    /\ Cardinality(AdmittedInWindow) = limMaxCalls

\* C9: with max_calls >= 1 every caller suspended in wait() is eventually
\* admitted.
C9_NoStarvation ==
  \A c \in Callers :
    (cpc[c] = "sleeping" /\ limMaxCalls >= 1) ~> (cpc[c] = "admitted")

\* every caller is through a limiter of one call per period, after waiting
C9_Witness ==
  /\ limMaxCalls = 1
  /\ \A c \in Callers : cpc[c] = "admitted"
  /\ Cardinality({c \in Callers : cslept[c]}) = NumCallers - 1

\* C10: a limiter with max_calls <= 0 is rejected at construction, and
\* wait() never raises.
C10_Misconfiguration ==
  /\ limBuilt => limMaxCalls >= 1
  /\ \A c \in Callers : cpc[c] # "raised"

\* --------------------------------------------------------------------- C11
\* C11: a generator whose max_concurrent is zero or negative is rejected when
\* it is constructed; no run starts with gates that admit no task.
C11_GateMisconfiguration == maxConcurrent < 1 => phase = "rejected"

\* --------------------------------------------------------------------- C12
\* the site's page n of the word has a headword and a part of speech
HasHeadwordAndPos(w, n) ==
  /\ Web(w, n).kind = "page"
  /\ Web(w, n).page.headword # <<>>
  /\ Web(w, n).page.pos # <<>>

ValidVariations(w) == {n \in Variations : HasHeadwordAndPos(w, n)}

\* every variation fetch of the word returns, a page or None
AllFetchesReturn(w) ==
  \A n \in Variations : Web(w, n).kind \in {"page", "status"}

\* a resolution that did not find the word in the cache and has ended
MissEnded(i) == wpc[i] = "done" /\ netReq[i] > 0

C13_AtomicCacheWrite ==
  \A w \in WordSet : cache[CachePath(w)] \in {<<>>, Cached(w)}

\* --------------------------------------------------------------------- C14
\* the audio URLs in the pronunciations of an entry, "us" and "uk"
AudioOf(e) ==
  IF "pronunciations" \in DOMAIN e
    THEN {e.pronunciations.us.audio, e.pronunciations.uk.audio} \ {NoText}
    ELSE {}

\* download_audio has been called for the URL
Invoked(u) ==
  \E j \in DOMAIN etasks : UsAudio(etasks[j]) = u /\ epc[j] # "start"

\* C14: for every word that was resolved and every audio URL in a
\* pronunciation of one of its entries, download_audio is called in the end:
\* when generate_deck has finished, after which no call is made, it has
\* been called for each of them.
C14_MediaFanOut ==
  phase = "done" =>
    \A i \in Tasks :
      results[i] # <<>> =>
        \A m \in DOMAIN results[i][1] :
          \A u \in AudioOf(results[i][1][m]) : Invoked(u)

\* --------------------------------------------------------------------- C15
\* the words whose resolution gave at least one entry, and the words whose
\* _process_word returned None
Yielded == {i \in Tasks : results[i] # <<>> /\ Len(results[i][1]) >= 1}

Skipped == {i \in Tasks : results[i] = <<>>}

C16_VariationIsolation ==
  \A i \in Tasks :
    LET w == Normalize(words[i]) IN
    (MissEnded(i) /\ ValidVariations(w) # {}) =>
      /\ results[i] # <<>>
      /\ Len(results[i][1]) = Cardinality(ValidVariations(w))

\* --------------------------------------------------------------------- C17
\* the entry has its headword, its part of speech, its pronunciations and
\* its meanings
CarriesMainFields(e) ==
  /\ {"headword", "part_of_speech", "pronunciations", "meanings"}
       \subseteq DOMAIN e
  /\ e.headword # NoText
  /\ e.part_of_speech # NoText

\* C17: a field of a valid entry page that cannot be parsed is left empty in
\* the entry, and the entry keeps its other fields: every entry built from
\* a fetched page carries the headword, the part of speech, the
\* pronunciations and the meanings of its page.
C17_ParseContainment ==
  \A i \in Tasks :
    (MissEnded(i) /\ results[i] # <<>>) =>
      \A m \in DOMAIN results[i][1] : CarriesMainFields(results[i][1][m])

\* --------------------------------------------------------------------- C18
\* the cache file of the word is not the same after the step
CacheChanges(w) == cache'[CachePath(w)] # cache[CachePath(w)]

\* the task missed the cache, and its fetch_word has come to its end
\* without raising: the pages are gathered and every nested fetch is over
FetchReturned(i) ==
  /\ wpc[i] \in {"processing", "writing"}
  /\ netReq[i] > 0 /\ raised[i] = "none"
  /\ \A n \in Variations : \A k \in DOMAIN ppc[i][n] : ppc[i][n][k] = "done"

\* nothing failed on the way: every nested fetch got its page and every
\* valid page was parsed without an error
FullySuccessful(i) ==
  \A n \in Variations :
    /\ \A k \in DOMAIN pres[i][n] : pres[i][n][k] # <<>>
    /\ IsValidEntry(vres[i][n]) => ~IdiomsRaise(vres[i][n][1])

\* the step ends the resolution of task i in an exception or in a cache hit
EndsWithoutFetch(i) ==
  /\ wpc[i] # "done" /\ wpc'[i] = "done"
  /\ raised'[i] # "none" \/ wpc[i] = "reading"

\* C18 as stated: a cache file changes only for a word whose resolution
\* missed the cache and whose fetch and parse succeeded in full, nested
\* phrasal-verb fetches included; a resolution that ends in WordNotFound, in
\* an error or in a cache hit leaves the cache as it is.
C18_CacheWriteDiscipline ==
  [][/\ \A w \in WordSet :
          CacheChanges(w) =>
            \E i \in Tasks :
              /\ Normalize(words[i]) = w
              /\ FetchReturned(i) /\ FullySuccessful(i)
     /\ \A i \in Tasks : EndsWithoutFetch(i) => cache' = cache]_vars

\* C18, amended: a cache file changes only for a word whose resolution
\* missed the cache and whose fetch_word has returned without raising,
\* after all its nested fetches; a nested fetch that failed and a page whose
\* parsing failed do not keep the file from being written.  A resolution
\* that ends in WordNotFound, in an error or in a cache hit leaves the cache
\* as it is.
C18_CacheWriteDisciplineAmended ==
  [][/\ \A w \in WordSet :
          CacheChanges(w) =>
            \E i \in Tasks : Normalize(words[i]) = w /\ FetchReturned(i)
     /\ \A i \in Tasks : EndsWithoutFetch(i) => cache' = cache]_vars

\* one word was fetched and is in the cache, another ended in an exception
\* and is not
C18_Witness ==
  \E i, k \in Tasks :
    /\ MissEnded(i) /\ results[i] # <<>>
    /\ cache[CachePath(words[i])] =
         <<[full |-> TRUE, data |-> Serialize(entries[i])]>>
    /\ MissEnded(k) /\ raised[k] # "none"
    /\ cache[CachePath(words[k])] = <<>>

\* --------------------------------------------------------------------- C19
\* the cache file an earlier run left for the word cannot be decoded with
\* the encoding
Unreadable(enc, w) ==
  \E b \in EntriesStrings(Cached(w)[1].data) : Decode(enc, b) = <<>>

\* per encoding, the words whose cache file cannot be read; the words the
\* site has; per word, the entry list a fetch of it gives
UnreadableWords == [enc \in Encodings |-> {w \in WordSet : Unreadable(enc, w)}]

FoundWords == {w \in WordSet : Outcome(w) = "found"}

ResolutionOf == [w \in WordSet |-> Resolution(w)]

ReadFailed(w) == localeEnc \in Encodings /\ w \in UnreadableWords[localeEnc]

\* the cache file of the word is as the open for writing left it
WriteFailed(w) == cache[CachePath(w)] = <<[full |-> FALSE, data |-> <<>>]>>

\* C19: a cache file that cannot be read counts as a miss, and the word is
\* fetched; whether or not the cache file could then be written, the
\* resolution of a word the site has ends with the fetched entry list,
\* and the word is counted as valid.
C19_CacheIOTolerance ==
  /\ \A i \in Tasks :
       LET w == Normalize(words[i]) IN
       /\ (i \in warm /\ wpc[i] = "done" /\ ReadFailed(w)) => netReq[i] > 0
       /\ (MissEnded(i) /\ w \in FoundWords) =>
            /\ raised[i] = "none"
            /\ results[i] = <<ResolutionOf[w]>>
  /\ phase = "done" =>
       validWords =
         Cardinality({i \in Tasks : Normalize(words[i]) \in FoundWords})

\* a word whose cache file could not be read was fetched, its cache file
\* could not be written, and the word has its entries
C19_Witness ==
  \E i \in warm :
    /\ ReadFailed(Normalize(words[i]))
    /\ MissEnded(i) /\ WriteFailed(Normalize(words[i]))
    /\ results[i] = <<ResolutionOf[Normalize(words[i])]>>
    /\ validWords >= 1

\* --------------------------------------------------------------------- C20
\* the media file has been written in full
Written(f) == disk[f] # <<>> /\ disk[f][1].full

\* C20: a media file that has been written is not opened for writing and
\* not changed again by any download_audio call of the run.
C20_MediaImmutability ==
  [][\A f \in FileNames : Written(f) => disk'[f] = disk[f]]_vars

\* --------------------------------------------------------------------- C21
\* the file names download_audio has returned for the URL
ReturnedNames(u) ==
  {eret[j][1] : j \in {x \in TasksFor(u) : epc[x] = "done" /\ eret[x] # <<>>}}

\* the step is the call of download_audio of entry task j
CallsDownload(j) ==
  /\ j \in DOMAIN epc /\ j \in DOMAIN epc'
  /\ epc[j] = "start" /\ epc'[j] # "start"
  /\ UsAudio(etasks[j]) # NoText

\* C21: once download_audio has returned a file name for a URL, a later call
\* for the URL returns that name in the step of the call: it does not wait
\* at or enter the media gate, takes no permit of the media limiter, sends
\* no request and leaves the media cache as it is.
C21_InMemoryHit ==
  [][\A j \in DOMAIN epc :
       (CallsDownload(j) /\ ReturnedNames(UsAudio(etasks[j])) # {}) =>
         /\ epc'[j] = "done"
         /\ {eret'[j][1]} = ReturnedNames(UsAudio(etasks[j]))
         /\ UNCHANGED <<mediaGate, mediaTs, reqTimes, gets, disk>>]_vars

\* two calls for one URL have returned its file name, and only one of them
\* went through the limiter
C21_Witness ==
  \E u \in AudioURLs :
    /\ Cardinality(TasksFor(u)) >= 2
    /\ \A j \in TasksFor(u) : epc[j] = "done" /\ eret[j] = <<FileName(u)>>
    /\ clock = 0 /\ Len(mediaTs) = 1 /\ \A j \in TasksFor(u) : gets[j] = 0

\* --------------------------------------------------------------------- C22
\* the sub-fetches of the task's entry pages are over
PvAllDone(i) ==
  \A n \in Variations : \A k \in DOMAIN ppc[i][n] : ppc[i][n][k] = "done"

\* the step sends a request for the word of task i
Requests(i) == netReq'[i] > netReq[i]

\* C22: within one word, no request is sent before the cache has been
\* looked at and found to miss; a phrasal-verb sub-fetch exists only for an
\* entry whose variation page has been fetched and found valid; and the
\* cache file of the word is opened and written only after all of the
\* word's sub-fetches are over.
C22_WordOrdering ==
  /\ [](\A i \in Tasks :
          /\ netReq[i] > 0 => wpc[i] \notin {"start", "reading"}
          /\ \A n \in Variations :
               DOMAIN ppc[i][n] # {} =>
                 vpc[i][n] = "done" /\ IsValidEntry(vres[i][n]))
  /\ [][/\ \A i \in Tasks :
            Requests(i) => wpc[i] \in {"variations", "processing"}
        /\ \A w \in WordSet :
            CacheChanges(w) =>
              \E i \in Tasks :
                /\ Normalize(words[i]) = w
                /\ wpc[i] \in {"processing", "writing"}
                /\ PvAllDone(i)]_vars

\* a word with sub-fetches has its cache file open for writing, all of them
\* over, while another word, which is under no such order, has requests out
C22_Witness ==
  \E i, k \in Tasks :
    /\ wpc[i] = "writing" /\ netReq[i] > 0
    /\ \E n \in Variations : DOMAIN ppc[i][n] # {}
    /\ PvAllDone(i)
    /\ wpc[k] = "variations"
    /\ \E n \in Variations : vpc[k][n] = "inflight"

\* --------------------------------------------------------------------- C23
\* the variation fetches of the task have all ended
ProbingOver(i) == \A n \in Variations : vpc[i][n] = "done"

RequestFails(j) ==
  /\ j \in DOMAIN epc /\ j \in DOMAIN epc'
  /\ epc[j] = "inflight" /\ epc'[j] \notin {"inflight", "writing"}

\* the step sends a request of entry task j
SendsRequest(j) ==
  j \in DOMAIN gets /\ j \in DOMAIN gets' /\ gets'[j] > gets[j]

\* C24: after the first failed request of a download the task sleeps one
\* time unit (a period of the limiter), after the second two; after the
\* third it returns None at once, without a sleep; and every request is sent
\* in a step that finds the sleep over and takes a new permit from the
\* media limiter.
C24_BackoffSchedule ==
  [][\A j \in DOMAIN epc :
       /\ RequestFails(j) =>
            /\ gets[j] = 1 =>
                 epc'[j] = "limiter" /\ ewake'[j] = clock + 1 * PERIOD
            /\ gets[j] = 2 =>
                 epc'[j] = "limiter" /\ ewake'[j] = clock + 2 * PERIOD
            /\ gets[j] = 3 =>
                 /\ epc'[j] = "done" /\ eret'[j] = <<>>
                 /\ ewake'[j] = ewake[j]
            /\ gets[j] \in 1..3
       /\ SendsRequest(j) =>
            /\ clock >= ewake[j]
            /\ mediaTs' = Append(Prune(mediaTs, clock), clock)
            /\ Len(mediaTs') <= MediaMaxCalls]_vars

\* a download whose second request has just failed sleeps two time units
C24_Witness ==
  \E j \in DOMAIN epc :
    /\ epc[j] = "limiter" /\ gets[j] = 2 /\ attempt[j] = 2
    /\ ewake[j] = clock + 2 * PERIOD

\* --------------------------------------------------------------------- C25
\* C25: whenever download_audio has returned a file name, and whenever a URL
\* is in url_to_filename, the file of that name in the media cache is
\* completely written, whatever the interleaving of the calls for the URL.
C25_MediaCompleteness ==
  /\ \A j \in DOMAIN eret : eret[j] # <<>> => Written(eret[j][1])
  /\ \A p \in urlToFilename : Written(p[2])

\* --------------------------------------------------------------------- C26
\* C26: a run with max_concurrent >= 1 in which every request and every
\* file operation comes to its end and time passes finishes: generate_deck
\* gets to its end, so no task stays for ever at the word gate, the
\* phrasal-verb gate, the media gate or in a limiter.
C26_Termination == <>(phase = "done")

\* a run with several permits has finished in which requests slept in a
\* limiter and a download went through its retries
C26_Witness ==
  /\ phase = "done"
  /\ maxConcurrent = MaxConcurrent
  /\ \A i \in Tasks : netReq[i] > 0
  /\ clock >= 1
  /\ \E j \in DOMAIN epc : gets[j] = MaxAttempts

\* C27: a task that leaves a gate gives back the one permit it took, however
\* it ends (a result, WordNotFound, an error that is caught, the retries
\* used up, an interrupt): the permits in use change with every step by the
\* tasks that entered minus the tasks that left; and when the word phase of
\* generate_deck is over the word gate and the phrasal-verb gate have all
\* their permits back, when generate_deck has finished the media gate too.
C27_GateRelease ==
  /\ [](/\ phase \in {"entries", "done"} => wordGate = 0 /\ pvGate = 0
        /\ phase = "done" => mediaGate = 0)
  /\ [][/\ wordGate' - wordGate =
             Cardinality(WordInside' \ WordInside)
               - Cardinality(WordInside \ WordInside')
        /\ pvGate' - pvGate =
             Cardinality(PvInside' \ PvInside)
               - Cardinality(PvInside \ PvInside')
        /\ mediaGate' - mediaGate =
             Cardinality(MediaInside' \ MediaInside)
               - Cardinality(MediaInside \ MediaInside')]_vars

\* a run has finished in which one word left the word gate by an exception
\* and another by its result, one download by giving up and another with a
\* file name
C27_Witness ==
  /\ phase = "done"
  /\ \E i \in Tasks : raised[i] # "none"
  /\ \E i \in Tasks : results[i] # <<>> /\ netReq[i] > 0
  /\ \E j \in DOMAIN epc : gets[j] = MaxAttempts /\ eret[j] = <<>>
  /\ \E j \in DOMAIN epc : gets[j] >= 1 /\ eret[j] # <<>>
  /\ wordGate = 0 /\ pvGate = 0 /\ mediaGate = 0

\* --------------------------------------------------------------------- C28
\* every _process_word of the run has returned
AllResolved == \A i \in Tasks : wpc[i] = "done"

\* something of the media phase has happened
MediaStarted ==
  \/ DOMAIN epc # {} \/ etasks # <<>>
  \/ mediaGate > 0 \/ mediaTs # <<>> \/ reqTimes["media"] # <<>>
  \/ urlToFilename # {} \/ mediaFiles # <<>>

\* C28: within a run no download_audio call is made, and nothing of the
\* media phase happens, before the resolution of every word of the list has
\* ended, in entries, in WordNotFound or in an error.
C28_ResolveMediaBarrier ==
  /\ [](MediaStarted => AllResolved /\ phase \in {"entries", "done"})
  /\ [][\A j \in DOMAIN epc :
          CallsDownload(j) => AllResolved /\ phase = "entries"]_vars

\* a download is under way after a run whose words ended in entries and in
\* an exception
C28_Witness ==
  /\ \E j \in DOMAIN epc : epc[j] = "inflight"
  /\ AllResolved
  /\ \E i \in Tasks : raised[i] # "none"
  /\ \E i \in Tasks : results[i] # <<>>

====
